---- MODULE Spec2Model ----
(***************************************************************************)
(* The lab lifecycle engine of containerlab (clab/clab.go): CreateNodes    *)
(* with its two scheduleNodes waves and their workers, CreateLinks with    *)
(* its link workers and the lab mutex, and DeleteNodes.                    *)
(*                                                                         *)
(* Goroutines are interchangeable, so a pool is kept as the number of its  *)
(* workers blocked in the select, plus, per node, the position of the      *)
(* worker that holds the node.  A send on an unbuffered channel and the    *)
(* matching receive are one step, and so are the close of a channel and    *)
(* the return of the workers that receive nil from it: a worker that       *)
(* comes back to the select of a closed channel returns at once.           *)
(***************************************************************************)
EXTENDS Integers, FiniteSets, Sequences, TLC

\* ---------------------------------------------------------------- bounds
NumNodes == 3
NumLinks == 2
MaxWorkers == 2
MaxLinkWorkers == 1
MaxStartupDelay == 1
MaxBinds == 2
MaxOpts == 2
MaxFilters == 3
MaxClabOptions == 2
MaxTimeouts == 3
\* ixia-c nodes of the lab whose PreDeploy is followed
NumIxia == 2

\* ------------------------------------------------------------- topology
\* c.Nodes: the nodes of the lab, named by their (unique) long-name.
Nodes == 1..NumNodes
\* c.Links: link k joins the nodes EndA(k) and EndB(k).
Links == 1..NumLinks
EndA(k) == ((k - 1) % NumNodes) + 1
EndB(k) == (k % NumNodes) + 1

Waves == {"static", "dynamic"}
Lanes == {"concurrent", "serial"}
\* the value of sendNode / linkSend when no send is pending
None == 0
\* no runtime helper is being called, no CLab is under construction
NoCall == [fn |-> "none"]
NoLab == [fn |-> "none"]

VARIABLES
    maxWorkers,      \* argument maxWorkers of CreateNodes, workers of DeleteNodes
    linkWorkers,     \* argument workers of CreateLinks
    staticIPNodes,   \* nodes with a non-empty MgmtIPv4Address or MgmtIPv6Address
    S,               \* the serial long-names the caller asked for
    serialNodes,     \* the serialNodes map handed to CreateNodes (mutated)
    status,          \* NodeConfig.DeploymentStatus of every node
    nodePc,          \* where the worker holding the node is (or how it ended)
    lane,            \* the channel the node was received from
    pc,              \* position of the caller's thread
    wave,            \* the wave the current/last scheduleNodes call is for
    toSend,          \* nodes the send loop of scheduleNodes has not reached yet
    sendNode,        \* node the send loop is blocked sending (None: none)
    sendChan,        \* the channel that send is on
    idle,            \* idle[v][l]: workers of wave v, lane l blocked in select
    spawned,         \* spawned[v][l]: workers wave v started on lane l
    closed,          \* closed[v]: the channels of wave v are closed
    ctxDone,         \* the context of CreateNodes/CreateLinks is cancelled
    cLinks,          \* c.Links
    linksCopy,       \* the local copy CreateLinks loops over
    linksIter,       \* keys the current range over linksCopy has not reached
    linkSend,        \* link CreateLinks is blocked sending (None: none)
    mutex,           \* c.m: "free" or the holder
    linkIdle,        \* link workers blocked in select
    linkPc,          \* per link: waiting, wiring, wired, wireErr
    linksClosed,     \* linksChan is closed
    delToSend,       \* nodes the send loop of DeleteNodes has not reached yet
    delSendNode,     \* node the send loop of DeleteNodes is blocked sending
    delSendChan,     \* the channel that send is on
    delIdle,         \* delIdle[l]: delete workers of lane l blocked in select
    delClosed,       \* the channels of DeleteNodes are closed
    delPc,           \* per node: none, deleting, deleted, deleteErr
    delCtxDone,      \* the context of DeleteNodes is cancelled
    call,            \* the call of a runtime helper: its arguments and result
    lab              \* the CLab under construction by NewContainerLab

params   == <<maxWorkers, linkWorkers, staticIPNodes, S>>
nodeVars == <<serialNodes, status, nodePc, lane, wave, toSend, sendNode,
              sendChan, idle, spawned, closed>>
linkVars == <<cLinks, linksCopy, linksIter, linkSend, mutex, linkIdle, linkPc,
              linksClosed>>
delVars  == <<delToSend, delSendNode, delSendChan, delIdle, delClosed, delPc,
              delCtxDone>>
utilVars == <<call, lab>>
lifeVars == <<params, nodeVars, linkVars, delVars, pc, ctxDone>>
vars     == <<lifeVars, utilVars>>

\* ------------------------------------------------------------ helpers
dynIPNodes == Nodes \ staticIPNodes
WaveOf(n) == IF n \in staticIPNodes THEN "static" ELSE "dynamic"
WaveNodes(v) == IF v = "static" THEN staticIPNodes ELSE dynIPNodes

\* positions of a worker that holds a node
Held == {"sleep", "predeploy", "deploy", "lock"}
\* how the processing of a node ended
Finished == {"created", "preDeployErr", "deployErr"}

\* nodes a worker of wave v, lane l holds
HeldBy(v, l) == {n \in WaveNodes(v) : nodePc[n] \in Held /\ lane[n] = l}
\* workers of wave v, lane l that have not returned
Living(v, l) == idle[v][l] + Cardinality(HeldBy(v, l))

\* number of concurrent workers scheduleNodes starts
NumConcurrent(W, scheduledNodes) ==
    IF Cardinality(scheduledNodes) < W THEN Cardinality(scheduledNodes) ELSE W
\* number of serial workers scheduleNodes starts
NumSerial(sn) == IF Cardinality(sn) > 0 THEN 1 ELSE 0

\* node.Config().DeploymentStatus = "created"
SetCreated(st, n) == [st EXCEPT ![n] = "created"]
\* the status after a failed PreDeploy or Deploy: the worker only logs
StatusOnError(st, n) == st
\* A worker comes back to the select (i workers of its pool are blocked
\* there): it blocks too, or receives nil from the closed channel and returns.
Reselect(i, chanClosed) == IF chanClosed THEN i ELSE i + 1
\* the worker's `continue` after an error: it is back at the select
ErrReturn(i, chanClosed) == i
ErrContinue(i, chanClosed) == Reselect(i, chanClosed)

\* where the worker goes when node.PreDeploy has returned: on an error it
\* logs and continues with the next node, else it calls node.Deploy
DeployAnyway(err) == "deploy"
AfterPreDeploy(err) == IF err THEN "preDeployErr" ELSE "deploy"
\* where the worker goes when node.Deploy has returned: on an error it logs
\* and continues with the next node, else it marks the node created
AfterDeploy(err) == IF err THEN "deployErr" ELSE "lock"

\* the link worker after CreateVirtualWiring failed: it only logs
WireErrReturn(i, chanClosed) == i
WireErrContinue(i, chanClosed) == Reselect(i, chanClosed)

\* the channel the send loop of scheduleNodes puts n on, sn being the
\* serialNodes map at that moment
SendAllConcurrent(n, sn) == "concurrent"
SendChanOf(n, sn) == IF n \in sn THEN "serial" ELSE "concurrent"
\* delete(serialNodes, n.Config().LongName) before a serial send
KeepSerial(sn, n) == sn
DeleteSerial(sn, n) == sn \ {n}
\* the send loop is over: every node of the wave was taken from the map and
\* the last (unbuffered) send has been received
LastSendPending(nodesLeft, sending) == nodesLeft = {}
SendLoopDone(nodesLeft, sending) == nodesLeft = {} /\ sending = None

\* CreateLinks deletes a dispatched link from its copy of the link map
KeepLink(lc, k) == lc
DeleteLink(lc, k) == lc \ {k}

\* the gate of CreateLinks
LinkReadyAny(st, k) == st[EndA(k)] = "created" \/ st[EndB(k)] = "created"
LinkReady(st, k) == st[EndA(k)] = "created" /\ st[EndB(k)] = "created"

\* the channel the send loop of DeleteNodes puts n on
DelLaneConcurrent(n) == "concurrent"
DelLane(n) == IF n \in S THEN "serial" ELSE "concurrent"
\* the delete worker after n.Delete failed: it only logs
DelErrReturn(i, chanClosed) == i
DelErrContinue(i, chanClosed) == Reselect(i, chanClosed)

\* n.Delete(ctx) leaves the DeploymentStatus alone
DeleteResets(st, n) == [st EXCEPT ![n] = "pending"]
StatusOnDelete(st, n) == st

\* ---------------------------------------------------------------- Init
\* the lab before CreateNodes is called
InitLab ==
    /\ serialNodes = S
    /\ status = [n \in Nodes |-> "pending"]
    /\ nodePc = [n \in Nodes |-> "queued"]
    /\ lane = [n \in Nodes |-> "none"]
    /\ wave = "static"
    /\ toSend = {}
    /\ sendNode = None
    /\ sendChan = "none"
    /\ idle = [v \in Waves |-> [l \in Lanes |-> 0]]
    /\ spawned = [v \in Waves |-> [l \in Lanes |-> 0]]
    /\ closed = [v \in Waves |-> FALSE]
    /\ ctxDone = FALSE
    /\ cLinks = Links
    /\ linksCopy = {}
    /\ linksIter = {}
    /\ linkSend = None
    /\ mutex = "free"
    /\ linkIdle = 0
    /\ linkPc = [k \in Links |-> "waiting"]
    /\ linksClosed = FALSE
    /\ delToSend = {}
    /\ delSendNode = None
    /\ delSendChan = "none"
    /\ delIdle = [l \in Lanes |-> 0]
    /\ delClosed = FALSE
    /\ delPc = [n \in Nodes |-> "none"]
    /\ delCtxDone = FALSE

Init ==
    /\ maxWorkers \in 0..MaxWorkers
    /\ linkWorkers \in 0..MaxLinkWorkers
    /\ staticIPNodes \in SUBSET Nodes
    /\ S \in SUBSET Nodes
    /\ InitLab
    /\ pc = "CreateNodes"
    /\ call = NoCall
    /\ lab = NoLab

\* ------------------------------------------------------- CreateNodes
\* CreateNodes partitions the nodes and calls scheduleNodes for the first
\* non-empty wave.
CreateNodes ==
    /\ pc = "CreateNodes"
    /\ wave' = IF staticIPNodes # {} THEN "static" ELSE "dynamic"
    /\ pc' = "scheduleNodes"
    /\ UNCHANGED <<utilVars, params, serialNodes, status, nodePc, lane, toSend, sendNode,
                   sendChan, idle, spawned, closed, linkVars, delVars, ctxDone>>

\* scheduleNodes up to the send loop: the workers are started.
ScheduleNodes ==
    /\ pc = "scheduleNodes"
    /\ LET workers == [l \in Lanes |->
                         IF l = "concurrent"
                         THEN NumConcurrent(maxWorkers, WaveNodes(wave))
                         ELSE NumSerial(serialNodes)]
       IN /\ spawned' = [spawned EXCEPT ![wave] = workers]
          /\ idle' = [idle EXCEPT ![wave] = workers]
    /\ toSend' = WaveNodes(wave)
    /\ pc' = "send"
    /\ UNCHANGED <<utilVars, params, serialNodes, status, nodePc, lane, wave, sendNode,
                   sendChan, closed, linkVars, delVars, ctxDone>>

\* The send loop takes the next node of the map (in any order), removes a
\* serial node from serialNodes and blocks sending it.
SendNode(n) ==
    /\ pc = "send"
    /\ sendNode = None
    /\ n \in toSend
    /\ toSend' = toSend \ {n}
    /\ sendNode' = n
    /\ sendChan' = SendChanOf(n, serialNodes)
    /\ serialNodes' = DeleteSerial(serialNodes, n)
    /\ UNCHANGED <<utilVars, params, status, nodePc, lane, wave, idle, spawned, closed,
                   pc, linkVars, delVars, ctxDone>>

\* A worker blocked in the select receives the node: it sleeps for the
\* StartupDelay if there is one, else it enters PreDeploy.
WorkerReceive(n) ==
    /\ pc = "send"
    /\ sendNode = n
    /\ n # None
    /\ idle[wave][sendChan] > 0
    /\ idle' = [idle EXCEPT ![wave][sendChan] = @ - 1]
    /\ lane' = [lane EXCEPT ![n] = sendChan]
    /\ \E delay \in 0..MaxStartupDelay :
          nodePc' = [nodePc EXCEPT ![n] = IF delay > 0 THEN "sleep" ELSE "predeploy"]
    /\ sendNode' = None
    /\ sendChan' = "none"
    /\ UNCHANGED <<utilVars, params, serialNodes, status, wave, toSend, spawned, closed,
                   pc, linkVars, delVars, ctxDone>>

\* time.Sleep returns
WorkerWake(n) ==
    /\ nodePc[n] = "sleep"
    /\ nodePc' = [nodePc EXCEPT ![n] = "predeploy"]
    /\ UNCHANGED <<utilVars, params, serialNodes, status, lane, wave, toSend, sendNode,
                   sendChan, idle, spawned, closed, pc, linkVars, delVars, ctxDone>>

\* node.PreDeploy returns, with or without an error
PreDeployReturn(n, err) ==
    /\ nodePc[n] = "predeploy"
    /\ nodePc' = [nodePc EXCEPT ![n] = AfterPreDeploy(err)]
    /\ IF nodePc'[n] \in Held
       THEN UNCHANGED <<status, idle>>
       ELSE /\ status' = StatusOnError(status, n)
            /\ idle' = [idle EXCEPT ![WaveOf(n)][lane[n]] =
                                        ErrContinue(@, closed[WaveOf(n)])]
    /\ UNCHANGED <<utilVars, params, serialNodes, lane, wave, toSend, sendNode, sendChan,
                   spawned, closed, pc, linkVars, delVars, ctxDone>>

\* node.Deploy(ctx) returns, with or without an error
DeployReturn(n, err) ==
    /\ nodePc[n] = "deploy"
    /\ nodePc' = [nodePc EXCEPT ![n] = AfterDeploy(err)]
    /\ IF nodePc'[n] \in Held
       THEN UNCHANGED <<status, idle>>
       ELSE /\ status' = StatusOnError(status, n)
            /\ idle' = [idle EXCEPT ![WaveOf(n)][lane[n]] =
                                        ErrContinue(@, closed[WaveOf(n)])]
    /\ UNCHANGED <<utilVars, params, serialNodes, lane, wave, toSend, sendNode, sendChan,
                   spawned, closed, pc, linkVars, delVars, ctxDone>>

\* c.m.Lock(); DeploymentStatus = "created"; c.m.Unlock(); back to the select
MarkCreated(n) ==
    /\ nodePc[n] = "lock"
    /\ mutex = "free"
    /\ status' = SetCreated(status, n)
    /\ nodePc' = [nodePc EXCEPT ![n] = "created"]
    /\ idle' = [idle EXCEPT ![WaveOf(n)][lane[n]] = Reselect(@, closed[WaveOf(n)])]
    /\ UNCHANGED <<utilVars, params, serialNodes, lane, wave, toSend, sendNode, sendChan,
                   spawned, closed, pc, linkVars, delVars, ctxDone>>

\* A worker blocked in the select returns because ctx is done (when a node
\* is also ready to be received, the select takes either).
WorkerExit(v, l) ==
    /\ idle[v][l] > 0
    /\ ctxDone
    /\ idle' = [idle EXCEPT ![v][l] = @ - 1]
    /\ UNCHANGED <<utilVars, params, serialNodes, status, nodePc, lane, wave, toSend,
                   sendNode, sendChan, spawned, closed, pc, linkVars, delVars,
                   ctxDone>>

\* The send loop is over: scheduleNodes closes both channels (the workers
\* blocked in the select return) and returns the wait group; CreateNodes
\* goes on to the dynamic wave or returns.
CloseChans ==
    /\ pc = "send"
    /\ SendLoopDone(toSend, sendNode)
    /\ closed' = [closed EXCEPT ![wave] = TRUE]
    /\ idle' = [idle EXCEPT ![wave] = [l \in Lanes |-> 0]]
    /\ IF wave = "static" /\ dynIPNodes # {}
       THEN wave' = "dynamic" /\ pc' = "scheduleNodes"
       ELSE wave' = wave /\ pc' = "CreateLinks"
    /\ UNCHANGED <<utilVars, params, serialNodes, status, nodePc, lane, toSend, sendNode,
                   sendChan, spawned, linkVars, delVars, ctxDone>>

\* the context of the deployment is cancelled (timeout, signal)
Cancel ==
    /\ ~ctxDone
    /\ pc \in {"scheduleNodes", "send", "CreateLinks", "links", "linksWait"}
    /\ ctxDone' = TRUE
    /\ UNCHANGED <<utilVars, params, nodeVars, linkVars, delVars, pc>>

\* ------------------------------------------------------- CreateLinks
\* CreateLinks up to its loop: the link workers are started and the links
\* map is copied.
CreateLinks ==
    /\ pc = "CreateLinks"
    /\ linkIdle' = linkWorkers
    /\ linksCopy' = cLinks
    /\ linksIter' = {}
    /\ pc' = "links"
    /\ UNCHANGED <<utilVars, params, nodeVars, cLinks, linkSend, mutex, linkPc,
                   linksClosed, delVars, ctxDone>>

\* the keys the range over linksCopy still has to reach; a range that is
\* over starts again while linksCopy is not empty
Range == IF linksIter = {} THEN linksCopy ELSE linksIter

\* One iteration of the range: under the mutex, a link whose two nodes are
\* created is sent to the link workers (the mutex stays held until a worker
\* receives it); any other link is left in linksCopy.
CheckLink(k) ==
    /\ pc = "links"
    /\ linkSend = None
    /\ k \in Range
    /\ mutex = "free"
    /\ linksIter' = Range \ {k}
    /\ IF LinkReady(status, k)
       THEN linkSend' = k /\ mutex' = "CreateLinks"
       ELSE UNCHANGED <<linkSend, mutex>>
    /\ UNCHANGED <<utilVars, params, nodeVars, cLinks, linksCopy, linkIdle, linkPc,
                   linksClosed, delVars, pc, ctxDone>>

\* A link worker receives the link and enters CreateVirtualWiring;
\* CreateLinks deletes the link from linksCopy and unlocks.
LinkReceive(k) ==
    /\ pc = "links"
    /\ linkSend = k
    /\ k # None
    /\ linkIdle > 0
    /\ linkIdle' = linkIdle - 1
    /\ linkPc' = [linkPc EXCEPT ![k] = "wiring"]
    /\ linksCopy' = DeleteLink(linksCopy, k)
    /\ linkSend' = None
    /\ mutex' = "free"
    /\ UNCHANGED <<utilVars, params, nodeVars, cLinks, linksIter, linksClosed, delVars,
                   pc, ctxDone>>

\* c.CreateVirtualWiring returns; an error is logged
WiringReturn(k, err) ==
    /\ linkPc[k] = "wiring"
    /\ linkPc' = [linkPc EXCEPT ![k] = IF err THEN "wireErr" ELSE "wired"]
    /\ linkIdle' = IF err THEN WireErrContinue(linkIdle, linksClosed)
                         ELSE Reselect(linkIdle, linksClosed)
    /\ UNCHANGED <<utilVars, params, nodeVars, cLinks, linksCopy, linksIter, linkSend,
                   mutex, linksClosed, delVars, pc, ctxDone>>

\* a link worker blocked in the select returns because ctx is done
LinkWorkerExit ==
    /\ linkIdle > 0
    /\ ctxDone
    /\ linkIdle' = linkIdle - 1
    /\ UNCHANGED <<utilVars, params, nodeVars, cLinks, linksCopy, linksIter, linkSend,
                   mutex, linkPc, linksClosed, delVars, pc, ctxDone>>

\* linksCopy is empty: the loop breaks and linksChan is closed (the link
\* workers blocked in the select return)
CloseLinks ==
    /\ pc = "links"
    /\ linkSend = None
    /\ linksIter = {}
    /\ linksCopy = {}
    /\ linksClosed' = TRUE
    /\ linkIdle' = 0
    /\ pc' = "linksWait"
    /\ UNCHANGED <<utilVars, params, nodeVars, cLinks, linksCopy, linksIter, linkSend,
                   mutex, linkPc, delVars, ctxDone>>

\* link workers that have not returned
LinkLiving == linkIdle + Cardinality({k \in Links : linkPc[k] = "wiring"})

\* wg.Wait() of CreateLinks returns
CreateLinksReturn ==
    /\ pc = "linksWait"
    /\ LinkLiving = 0
    /\ pc' = "DeleteNodes"
    /\ UNCHANGED <<utilVars, params, nodeVars, linkVars, delVars, ctxDone>>

\* ------------------------------------------------------- DeleteNodes
\* DeleteNodes up to its send loop: the workers are started.
DeleteNodes ==
    /\ pc = "DeleteNodes"
    /\ delIdle' = [l \in Lanes |->
                     IF l = "concurrent" THEN maxWorkers ELSE NumSerial(S)]
    /\ delToSend' = Nodes
    /\ pc' = "delSend"
    /\ UNCHANGED <<utilVars, params, nodeVars, linkVars, delSendNode, delSendChan,
                   delClosed, delPc, delCtxDone, ctxDone>>

\* the send loop takes the next node of c.Nodes and blocks sending it
DelSendNode(n) ==
    /\ pc = "delSend"
    /\ delSendNode = None
    /\ n \in delToSend
    /\ delToSend' = delToSend \ {n}
    /\ delSendNode' = n
    /\ delSendChan' = DelLane(n)
    /\ UNCHANGED <<utilVars, params, nodeVars, linkVars, delIdle, delClosed, delPc,
                   delCtxDone, pc, ctxDone>>

\* a delete worker receives the node and enters n.Delete
DelReceive(n) ==
    /\ pc = "delSend"
    /\ delSendNode = n
    /\ n # None
    /\ delIdle[delSendChan] > 0
    /\ delIdle' = [delIdle EXCEPT ![delSendChan] = @ - 1]
    /\ delPc' = [delPc EXCEPT ![n] = "deleting"]
    /\ delSendNode' = None
    /\ delSendChan' = "none"
    /\ UNCHANGED <<utilVars, params, nodeVars, linkVars, delToSend, delClosed,
                   delCtxDone, pc, ctxDone>>

\* n.Delete(ctx) returns; an error is logged
DeleteReturn(n, err) ==
    /\ delPc[n] = "deleting"
    /\ delPc' = [delPc EXCEPT ![n] = IF err THEN "deleteErr" ELSE "deleted"]
    /\ status' = StatusOnDelete(status, n)
    /\ delIdle' = [delIdle EXCEPT ![DelLane(n)] =
                      IF err THEN DelErrContinue(@, delClosed)
                             ELSE Reselect(@, delClosed)]
    /\ UNCHANGED <<utilVars, params, serialNodes, nodePc, lane, wave, toSend, sendNode,
                   sendChan, idle, spawned, closed, linkVars, delToSend,
                   delSendNode, delSendChan, delClosed, delCtxDone, pc, ctxDone>>

\* a delete worker blocked in the select returns because ctx is done
DelWorkerExit(l) ==
    /\ delIdle[l] > 0
    /\ delCtxDone
    /\ delIdle' = [delIdle EXCEPT ![l] = @ - 1]
    /\ UNCHANGED <<utilVars, params, nodeVars, linkVars, delToSend, delSendNode,
                   delSendChan, delClosed, delPc, delCtxDone, pc, ctxDone>>

\* the send loop is over: both channels are closed (the delete workers
\* blocked in the select return)
DelCloseChans ==
    /\ pc = "delSend"
    /\ delToSend = {}
    /\ delSendNode = None
    /\ delClosed' = TRUE
    /\ delIdle' = [l \in Lanes |-> 0]
    /\ pc' = "delWait"
    /\ UNCHANGED <<utilVars, params, nodeVars, linkVars, delToSend, delSendNode,
                   delSendChan, delPc, delCtxDone, ctxDone>>

\* delete workers that have not returned
DelLiving ==
    delIdle["concurrent"] + delIdle["serial"]
        + Cardinality({n \in Nodes : delPc[n] = "deleting"})

\* wg.Wait() of DeleteNodes returns
DeleteNodesReturn ==
    /\ pc = "delWait"
    /\ DelLiving = 0
    /\ pc' = "done"
    /\ UNCHANGED <<utilVars, params, nodeVars, linkVars, delVars, ctxDone>>

\* the context of DeleteNodes is cancelled
DelCancel ==
    /\ ~delCtxDone
    /\ pc \in {"delSend", "delWait"}
    /\ delCtxDone' = TRUE
    /\ UNCHANGED <<utilVars, params, nodeVars, linkVars, delToSend, delSendNode,
                   delSendChan, delIdle, delClosed, delPc, pc, ctxDone>>

\* ---------------------------------------------------------------- Next
Next ==
    \/ CreateNodes
    \/ ScheduleNodes
    \/ \E n \in Nodes : SendNode(n)
    \/ \E n \in Nodes : WorkerReceive(n)
    \/ \E n \in Nodes : WorkerWake(n)
    \/ \E n \in Nodes, err \in BOOLEAN : PreDeployReturn(n, err)
    \/ \E n \in Nodes, err \in BOOLEAN : DeployReturn(n, err)
    \/ \E n \in Nodes : MarkCreated(n)
    \/ \E v \in Waves, l \in Lanes : WorkerExit(v, l)
    \/ CloseChans
    \/ Cancel
    \/ CreateLinks
    \/ \E k \in Links : CheckLink(k)
    \/ \E k \in Links : LinkReceive(k)
    \/ \E k \in Links, err \in BOOLEAN : WiringReturn(k, err)
    \/ LinkWorkerExit
    \/ CloseLinks
    \/ CreateLinksReturn
    \/ DeleteNodes
    \/ \E n \in Nodes : DelSendNode(n)
    \/ \E n \in Nodes : DelReceive(n)
    \/ \E n \in Nodes, err \in BOOLEAN : DeleteReturn(n, err)
    \/ \E l \in Lanes : DelWorkerExit(l)
    \/ DelCloseChans
    \/ DeleteNodesReturn
    \/ DelCancel

Spec == Init /\ [][Next]_vars

\* ------------------------------------------------------------ fairness
\* the steps of the caller's thread
Main ==
    \/ CreateNodes
    \/ ScheduleNodes
    \/ \E n \in Nodes : SendNode(n)
    \/ CloseChans
    \/ CreateLinks
    \/ \E k \in Links : CheckLink(k)
    \/ CloseLinks
    \/ CreateLinksReturn
    \/ DeleteNodes
    \/ \E n \in Nodes : DelSendNode(n)
    \/ DelCloseChans
    \/ DeleteNodesReturn
\* the steps of the worker that takes node n
NodeWorker(n) ==
    \/ WorkerReceive(n)
    \/ WorkerWake(n)
    \/ \E err \in BOOLEAN : PreDeployReturn(n, err)
    \/ \E err \in BOOLEAN : DeployReturn(n, err)
    \/ MarkCreated(n)
\* the steps of the link worker that takes link k
LinkWorker(k) == LinkReceive(k) \/ \E err \in BOOLEAN : WiringReturn(k, err)
\* the steps of the delete worker that takes node n
DelWorker(n) == DelReceive(n) \/ \E err \in BOOLEAN : DeleteReturn(n, err)

\* Every goroutine that can take a step eventually takes one, and every
\* call into a node or the wiring returns; cancellation is never forced.
FairSpec ==
    /\ Spec
    /\ WF_vars(Main)
    /\ \A n \in Nodes : WF_vars(NodeWorker(n))
    /\ \A k \in Links : WF_vars(LinkWorker(k))
    /\ \A n \in Nodes : WF_vars(DelWorker(n))

\* ------------------------------------------------- DeleteNodes alone
\* DeleteNodes called on a lab of a fresh process (the destroy command):
\* no node has been touched by this process.
DelInit ==
    /\ maxWorkers \in 0..MaxWorkers
    /\ linkWorkers = 0
    /\ staticIPNodes = {}
    /\ S \in SUBSET Nodes
    /\ InitLab
    /\ pc = "DeleteNodes"
    /\ call = NoCall
    /\ lab = NoLab

DelNext ==
    \/ DeleteNodes
    \/ \E n \in Nodes : DelSendNode(n)
    \/ \E n \in Nodes : DelReceive(n)
    \/ \E n \in Nodes, err \in BOOLEAN : DeleteReturn(n, err)
    \/ \E l \in Lanes : DelWorkerExit(l)
    \/ DelCloseChans
    \/ DeleteNodesReturn
    \/ DelCancel

\* the caller's thread and the delete workers keep running, every Delete
\* call returns; cancellation is never forced
DeleteSpec ==
    /\ DelInit
    /\ [][DelNext]_vars
    /\ WF_vars(Main)
    /\ \A n \in Nodes : WF_vars(DelWorker(n))

\* ------------------------------------------------------ convertMounts
\* A string is the sequence of its characters.
Colon == ":"
Comma == ","
\* the index of the first sep in s, 0 when there is none
Index(s, sep) ==
    IF \E i \in 1..Len(s) : s[i] = sep
    THEN CHOOSE i \in 1..Len(s) : s[i] = sep /\ \A j \in 1..(i - 1) : s[j] # sep
    ELSE 0
\* strings.SplitN(s, sep, n): at most n substrings, the last one being the
\* unsplit remainder; n < 0 means all substrings (strings.Split)
RECURSIVE SplitN(_, _, _)
SplitN(s, sep, n) ==
    IF n = 1 \/ Index(s, sep) = 0
    THEN <<s>>
    ELSE <<SubSeq(s, 1, Index(s, sep) - 1)>>
             \o SplitN(SubSeq(s, Index(s, sep) + 1, Len(s)), sep, n - 1)
Split(s, sep) == SplitN(s, sep, -1)
\* strings.Join(elems, sep)
RECURSIVE Join(_, _)
Join(elems, sep) ==
    IF Len(elems) = 0 THEN <<>>
    ELSE IF Len(elems) = 1 THEN elems[1]
    ELSE elems[1] \o <<sep>> \o Join(Tail(elems), sep)

\* mntSplit of convertMounts
SplitBindAll(mnt) == Split(mnt, Colon)
SplitBind(mnt) == SplitN(mnt, Colon, 3)
\* the specs.Mount built from mntSplit (nil Options is the empty sequence)
Mount(mntSplit) ==
    [Destination |-> mntSplit[2],
     Type        |-> "bind",
     Source      |-> mntSplit[1],
     Options     |-> IF Len(mntSplit) = 3 THEN Split(mntSplit[3], Comma) ELSE <<>>]
\* what convertMounts returns as its mounts when a spec is invalid
PartialMounts(mntSpec) == mntSpec
InvalidBindMounts(mntSpec) == <<>>
\* the loop of convertMounts from index i on, mntSpec holding the mounts
\* built so far
RECURSIVE ConvertFrom(_, _, _)
ConvertFrom(mounts, i, mntSpec) ==
    IF i > Len(mounts)
    THEN [mntSpec |-> mntSpec, err |-> "nil"]
    ELSE IF Len(SplitBind(mounts[i])) = 1
         THEN [mntSpec |-> InvalidBindMounts(mntSpec), err |-> "errInvalidBind"]
         ELSE ConvertFrom(mounts, i + 1, Append(mntSpec, Mount(SplitBind(mounts[i]))))
\* convertMounts(ctx, mounts)
convertMounts(mounts) ==
    IF Len(mounts) = 0
    THEN [mntSpec |-> <<>>, err |-> "nil"]
    ELSE ConvertFrom(mounts, 1, <<>>)

\* The binds a caller writes: a source, a destination and a list of options
\* (options may hold a colon, paths may hold a comma), or a string without
\* any colon.
Sources == {<<"s">>, <<"s", Comma>>}
Destinations == {<<"d">>}
OptTokens == {<<>>, <<"r">>, <<"z", Colon>>}
OptLists == UNION {[1..n -> OptTokens] : n \in 1..MaxOpts}
NoColon == Sources \cup {<<>>}
Binds ==
    [kind : {"src:dst"}, src : Sources, dst : Destinations, opts : {<<>>}]
        \cup [kind : {"src:dst:opts"}, src : Sources, dst : Destinations,
                opts : OptLists]
        \cup [kind : {"nocolon"}, src : NoColon, dst : {<<>>}, opts : {<<>>}]
\* the bind spec string of b
Format(b) ==
    CASE b.kind = "nocolon"      -> b.src
      [] b.kind = "src:dst"      -> b.src \o <<Colon>> \o b.dst
      [] b.kind = "src:dst:opts" -> b.src \o <<Colon>> \o b.dst \o <<Colon>>
                                        \o Join(b.opts, Comma)

\* a call of convertMounts on a list of binds
MountInit ==
    /\ \E n \in 0..MaxBinds : \E binds \in [1..n -> Binds] :
          call = [fn     |-> "convertMounts",
                  binds  |-> binds,
                  mounts |-> [i \in 1..n |-> Format(binds[i])],
                  done   |-> FALSE,
                  ret    |-> [mntSpec |-> <<>>, err |-> "nil"]]
    /\ lab = NoLab
    /\ maxWorkers = 0
    /\ linkWorkers = 0
    /\ staticIPNodes = {}
    /\ S = {}
    /\ InitLab
    /\ pc = "CreateNodes"

\* convertMounts runs and returns
ConvertMounts ==
    /\ call.fn = "convertMounts"
    /\ ~call.done
    /\ call' = [call EXCEPT !.done = TRUE, !.ret = convertMounts(call.mounts)]
    /\ UNCHANGED <<lifeVars, lab>>

MountNext == ConvertMounts

MountSpec == MountInit /\ [][MountNext]_vars

\* -------------------------------------------------- buildFilterString
\* the generic filters a caller passes
FilterTypes == {"label", "name"}
Fields == {<<"f">>, <<"g">>}
Operators == {"=", "exists", "!="}
Matches == {<<>>, <<"v">>}
GenericFilters ==
    [FilterType : FilterTypes, Field : Fields, Operator : Operators,
     Match : Matches]

\* filterOp and filterValue after the `exists` rewrite
FilterOp(gF) == IF gF.Operator = "exists" THEN "=" ELSE gF.Operator
KeepMatch(gF) == gF.Match
FilterValue(gF) == IF gF.Operator = "exists" THEN <<>> ELSE gF.Match
\* filterStr := gF.Field + filterOp + filterValue
FilterStr(gF) == gF.Field \o <<FilterOp(gF)>> \o FilterValue(gF)
\* filters[filterType] = append(filters[filterType], filterStr)
AppendFilter(filters, filterType, filterStr) ==
    [t \in DOMAIN filters \cup {filterType} |->
        IF t = filterType
        THEN Append(IF t \in DOMAIN filters THEN filters[t] ELSE <<>>, filterStr)
        ELSE filters[t]]
\* the loop of buildFilterString from index i on
RECURSIVE BuildFrom(_, _, _)
BuildFrom(gFilters, i, filters) ==
    IF i > Len(gFilters)
    THEN filters
    ELSE IF FilterOp(gFilters[i]) # "="
         THEN BuildFrom(gFilters, i + 1, filters)
         ELSE BuildFrom(gFilters, i + 1,
                        AppendFilter(filters, gFilters[i].FilterType,
                                     FilterStr(gFilters[i])))
\* buildFilterString(gFilters), starting from the empty map
buildFilterString(gFilters) == BuildFrom(gFilters, 1, [t \in {} |-> <<>>])

\* a call of buildFilterString on a list of generic filters
FilterInit ==
    /\ \E n \in 0..MaxFilters : \E gFilters \in [1..n -> GenericFilters] :
          call = [fn       |-> "buildFilterString",
                  gFilters |-> gFilters,
                  done     |-> FALSE,
                  filters  |-> [t \in {} |-> <<>>]]
    /\ lab = NoLab
    /\ maxWorkers = 0
    /\ linkWorkers = 0
    /\ staticIPNodes = {}
    /\ S = {}
    /\ InitLab
    /\ pc = "CreateNodes"

\* buildFilterString runs and returns
BuildFilterString ==
    /\ call.fn = "buildFilterString"
    /\ ~call.done
    /\ call' = [call EXCEPT !.done = TRUE,
                            !.filters = buildFilterString(call.gFilters)]
    /\ UNCHANGED <<lifeVars, lab>>

FilterNext == BuildFilterString

FilterSpec == FilterInit /\ [][FilterNext]_vars

\* ---------------------------------------------------- NewContainerLab
\* the runtime registry and the name of the default runtime
ContainerRuntimes == {"docker", "podman"}
DockerRuntime == "docker"
\* the names a caller or the environment may give (empty: not given)
RuntimeNames == ContainerRuntimes \cup {"", "bogus"}
\* the package defaults of the management network; they are not empty
dockerNetName == "dockerNetName"
dockerNetIPv4Addr == "dockerNetIPv4Addr"
dockerNetIPv6Addr == "dockerNetIPv6Addr"
\* new(types.MgmtNet)
NewMgmtNet == [Network |-> "", IPv4Subnet |-> "", IPv6Subnet |-> "", MTU |-> ""]
\* the management networks a topology file may declare
MgmtNets ==
    [Network : {"", "custom"}, IPv4Subnet : {"", "v4user"},
     IPv6Subnet : {"", "v6user"}, MTU : {"", "9000"}]
\* the options a caller may pass to NewContainerLab
ClabOptions ==
    [opt : {"WithTimeout"}, dur : -1..1, name : {""}, file : {""}]
        \cup [opt : {"WithRuntime"}, dur : {0}, name : RuntimeNames, file : {""}]
        \cup [opt : {"WithTopoFile"}, dur : {0}, name : {""}, file : {"", "lab.yml"}]

\* the errors of the options and of parseTopology
ErrTimeout == "zero or negative timeouts are not allowed"
ErrInit == "failed to init the container runtime"
ErrUnknownRuntime == "unknown container runtime"
ErrNoTopoFile == "provide a path to the clab topology file"
ErrReadTopo == "failed to read topology file"
ErrParseTopo == "parseTopology failed"

\* WithTimeout(dur) applied to c
WithTimeout(c, dur) ==
    IF dur <= 0 THEN [c EXCEPT !.err = ErrTimeout] ELSE [c EXCEPT !.timeout = dur]

\* the runtime name WithRuntime uses: cli flag -> env var -> docker
EnvFirst(name, envN) ==
    IF envN # "" THEN envN ELSE IF name # "" THEN name ELSE DockerRuntime
RuntimeName(name, envN) ==
    IF name # "" THEN name ELSE IF envN # "" THEN envN ELSE DockerRuntime
\* c.Runtimes[name] = r, r being the runtime the registry makes for name
SetRuntime(runtimes, name) ==
    [n \in DOMAIN runtimes \cup {name} |-> IF n = name THEN name ELSE runtimes[n]]
\* WithRuntime(name, rtconfig) applied to c; initErr: r.Init returns an error
WithRuntime(c, name, initErr) ==
    LET n  == RuntimeName(name, c.env)
        c1 == [c EXCEPT !.globalRuntime = n]
    IN IF n \in ContainerRuntimes
       THEN IF initErr
            THEN [c1 EXCEPT !.inits = Append(@, n), !.err = ErrInit]
            ELSE [c1 EXCEPT !.inits = Append(@, n), !.Runtimes = SetRuntime(@, n)]
       ELSE [c1 EXCEPT !.err = ErrUnknownRuntime]
\* c.GlobalRuntime(): the zero value (here "") when the map has no entry
GlobalRuntime(c) ==
    IF c.globalRuntime \in DOMAIN c.Runtimes THEN c.Runtimes[c.globalRuntime] ELSE ""

\* the test of initMgmtNetwork for injecting the default subnets
AnySubnetUnset(mgmt) == mgmt.IPv4Subnet = "" \/ mgmt.IPv6Subnet = ""
SubnetsUnset(mgmt) == mgmt.IPv4Subnet = "" /\ mgmt.IPv6Subnet = ""
\* initMgmtNetwork on the management network mgmt; m: what
\* utils.DefaultNetMTU returns (its error is only logged)
initMgmtNetwork(mgmt, m) ==
    [Network    |-> IF mgmt.Network = "" THEN dockerNetName ELSE mgmt.Network,
     IPv4Subnet |-> IF SubnetsUnset(mgmt) THEN dockerNetIPv4Addr ELSE mgmt.IPv4Subnet,
     IPv6Subnet |-> IF SubnetsUnset(mgmt) THEN dockerNetIPv6Addr ELSE mgmt.IPv6Subnet,
     MTU        |-> IF mgmt.MTU = "" THEN m ELSE mgmt.MTU]
\* WithTopoFile(file, varsFile) applied to c; topoErr: GetTopology returns
\* an error, else it has read the management network mgmt into c.Config and
\* set the path of the topology file
WithTopoFile(c, file, topoErr, mgmt, m) ==
    IF file = "" THEN [c EXCEPT !.err = ErrNoTopoFile]
    ELSE IF topoErr THEN [c EXCEPT !.err = ErrReadTopo]
    ELSE [c EXCEPT !.path = file, !.declared = mgmt,
                   !.Mgmt = initMgmtNetwork(mgmt, m)]

\* NewContainerLab(opts...) with CLAB_RUNTIME set to env: the fresh CLab
LabInit ==
    /\ \E n \in 0..MaxClabOptions : \E opts \in [1..n -> ClabOptions] :
       \E env \in RuntimeNames :
          lab = [fn            |-> "NewContainerLab",
                 opts          |-> opts,
                 env           |-> env,
                 next          |-> 1,
                 timeout       |-> 0,
                 globalRuntime |-> "",
                 Runtimes      |-> [r \in {} |-> ""],
                 inits         |-> <<>>,
                 Mgmt          |-> NewMgmtNet,
                 declared      |-> NewMgmtNet,
                 path          |-> "",
                 err           |-> "nil",
                 returned      |-> FALSE,
                 result        |-> "none"]
    /\ call = NoCall
    /\ maxWorkers = 0
    /\ linkWorkers = 0
    /\ staticIPNodes = {}
    /\ S = {}
    /\ InitLab
    /\ pc = "CreateNodes"

\* the option loop is at an option of kind opt
AtOption(opt) ==
    /\ lab.fn = "NewContainerLab"
    /\ ~lab.returned
    /\ lab.next <= Len(lab.opts)
    /\ lab.opts[lab.next].opt = opt
\* one iteration of the option loop: c is the lab after opt(c); an error
\* makes NewContainerLab return nil and the error at once
AppliedAnyway(c) == [c EXCEPT !.next = @ + 1]
Applied(c) ==
    [c EXCEPT !.next = @ + 1,
              !.returned = (c.err # "nil"),
              !.result = IF c.err # "nil" THEN "nil" ELSE c.result]

ApplyWithTimeout ==
    /\ AtOption("WithTimeout")
    /\ lab' = Applied(WithTimeout(lab, lab.opts[lab.next].dur))
    /\ UNCHANGED <<lifeVars, call>>

ApplyWithRuntime ==
    /\ AtOption("WithRuntime")
    /\ \E initErr \in BOOLEAN :
          lab' = Applied(WithRuntime(lab, lab.opts[lab.next].name, initErr))
    /\ UNCHANGED <<lifeVars, call>>

ApplyWithTopoFile ==
    /\ AtOption("WithTopoFile")
    /\ \E topoErr \in BOOLEAN, mgmt \in MgmtNets, m \in {"", "1500"} :
          lab' = Applied(WithTopoFile(lab, lab.opts[lab.next].file, topoErr, mgmt, m))
    /\ UNCHANGED <<lifeVars, call>>

\* every option is applied: parseTopology when a topology file was read,
\* and NewContainerLab returns
NewContainerLabReturn ==
    /\ lab.fn = "NewContainerLab"
    /\ ~lab.returned
    /\ lab.next > Len(lab.opts)
    /\ \E parseErr \in BOOLEAN :
          lab' = [lab EXCEPT !.returned = TRUE,
                             !.result = "c",
                             !.err = IF lab.path # "" /\ parseErr
                                     THEN ErrParseTopo ELSE "nil"]
    /\ UNCHANGED <<lifeVars, call>>

LabNext ==
    \/ ApplyWithTimeout
    \/ ApplyWithRuntime
    \/ ApplyWithTopoFile
    \/ NewContainerLabReturn

LabSpec == LabInit /\ [][LabNext]_vars

\* ---------------------------------------------------- ixiacPostDeploy
\* ixiacStatusConfig.statusSleepDuration, in seconds
statusSleepDuration == 5
\* the lab timeouts, in seconds, and the value the clock of the model stops at
Timeouts == {statusSleepDuration * k : k \in 1..MaxTimeouts}
ClockStop == statusSleepDuration * (MaxTimeouts + 1)
\* time.Sleep(statusSleepDuration) on the clock of the model
AfterSleep(elapsed) ==
    IF elapsed + statusSleepDuration > ClockStop THEN ClockStop
    ELSE elapsed + statusSleepDuration

\* PostDeploy of an ixia-c-one node calls ixiacPostDeploy; the .ready
\* sentinel is not there yet
PollInit ==
    /\ \E timeout \in Timeouts :
          call = [fn      |-> "ixiacPostDeploy",
                  timeout |-> timeout,
                  elapsed |-> 0,
                  ready   |-> FALSE,
                  ctxDone |-> FALSE,
                  pc      |-> "exec",
                  ret     |-> "none"]
    /\ lab = NoLab
    /\ maxWorkers = 0
    /\ linkWorkers = 0
    /\ staticIPNodes = {}
    /\ S = {}
    /\ InitLab
    /\ pc = "CreateNodes"

\* what `docker exec <node> ls ./.ready` can give: no error, the
\* in-progress message, or another failure
ExecOutcomes(ready) == IF ready THEN {"ok", "other"} ELSE {"inProgress", "other"}
\* what the loop does with the outcome: break and return nil, return the
\* error, or sleep and poll again (neither ctx nor a timeout is consulted)
PollStep(c, outcome) ==
    IF outcome = "ok" THEN [c EXCEPT !.pc = "returned", !.ret = "nil"]
    ELSE IF outcome = "other" THEN [c EXCEPT !.pc = "returned", !.ret = "err"]
    ELSE [c EXCEPT !.pc = "sleep"]

\* one run of the readiness command
PollExec ==
    /\ call.fn = "ixiacPostDeploy"
    /\ call.pc = "exec"
    /\ \E outcome \in ExecOutcomes(call.ready) : call' = PollStep(call, outcome)
    /\ UNCHANGED <<lifeVars, lab>>

\* time.Sleep returns
PollSleepReturn ==
    /\ call.fn = "ixiacPostDeploy"
    /\ call.pc = "sleep"
    /\ call' = [call EXCEPT !.pc = "exec", !.elapsed = AfterSleep(@)]
    /\ UNCHANGED <<lifeVars, lab>>

\* the node writes its .ready sentinel
SentinelAppears ==
    /\ call.fn = "ixiacPostDeploy"
    /\ call.pc # "returned"
    /\ ~call.ready
    /\ call' = [call EXCEPT !.ready = TRUE]
    /\ UNCHANGED <<lifeVars, lab>>

\* the context handed to PostDeploy is cancelled
PollCancel ==
    /\ call.fn = "ixiacPostDeploy"
    /\ call.pc # "returned"
    /\ ~call.ctxDone
    /\ call' = [call EXCEPT !.ctxDone = TRUE]
    /\ UNCHANGED <<lifeVars, lab>>

PollNext ==
    \/ PollExec
    \/ PollSleepReturn
    \/ SentinelAppears
    \/ PollCancel

\* the command and the sleep return; the sentinel and the cancellation are
\* up to the environment
PollSpec ==
    /\ PollInit
    /\ [][PollNext]_vars
    /\ WF_vars(PollExec)
    /\ WF_vars(PollSleepReturn)

\* ------------------------------------------------------ extractMgmtIP
\* the networks a container may be attached to, and the values of its
\* clab-net-mgmt label ("gone" names a network that does not exist)
NetNames == {"clab", "other"}
LabelValues == {"", "gone"} \cup NetNames
\* the lookup of the clab-net-mgmt label: netName, ok
LabelLookups ==
    {[ok |-> FALSE, netName |-> ""]} \cup [ok : {TRUE}, netName : LabelValues]
\* NetworkSettings.Networks: per network no entry, a nil entry or an attachment
Attachments == [NetNames -> {"absent", "nil", "data"}]
\* the containers extractMgmtIP may be asked about
Containers == [label : LabelLookups, networks : Attachments]
\* the inspect data of a container without labels and networks
ZeroInspect ==
    [label |-> [ok |-> FALSE, netName |-> ""],
     networks |-> [n \in NetNames |-> "absent"]]
\* the address data of the attachment of a container on network n
Attachment(n) ==
    IF n = "clab"
    THEN [IPAddress |-> "172.20.20.2", IPPrefixLen |-> 24,
          GlobalIPv6Address |-> "2001:172:20:20::2", GlobalIPv6PrefixLen |-> 64]
    ELSE [IPAddress |-> "10.88.0.2", IPPrefixLen |-> 16,
          GlobalIPv6Address |-> "fd00::2", GlobalIPv6PrefixLen |-> 48]
\* types.GenericMgmtIPs{}
EmptyMgmtIPs == [IPv4addr |-> "", IPv4pLen |-> 0, IPv6addr |-> "", IPv6pLen |-> 0]

\* what containers.Inspect hands back: on success the data of the
\* container, on an error a nil pointer or data without content
InspectResults(container) ==
    {[err |-> FALSE, nilRes |-> FALSE, data |-> container],
     [err |-> TRUE, nilRes |-> TRUE, data |-> ZeroInspect],
     [err |-> TRUE, nilRes |-> FALSE, data |-> ZeroInspect]}

\* extractMgmtIP after Inspect returned inspectRes: the error is only
\* logged, then the label and the attachment are read from inspectRes
\* (a nil inspectRes makes the read panic)
extractMgmtIP(inspectRes) ==
    IF inspectRes.nilRes
    THEN [toReturn |-> EmptyMgmtIPs, err |-> "panic"]
    ELSE LET netName == inspectRes.data.label.netName
             ok == inspectRes.data.label.ok
         IN IF ~ok \/ netName = ""
            THEN [toReturn |-> EmptyMgmtIPs, err |-> "nil"]
            ELSE IF netName \notin NetNames
                    \/ inspectRes.data.networks[netName] # "data"
                 THEN [toReturn |-> EmptyMgmtIPs, err |-> "nil"]
                 ELSE [toReturn |->
                          [IPv4addr |-> Attachment(netName).IPAddress,
                           IPv4pLen |-> Attachment(netName).IPPrefixLen,
                           IPv6addr |-> Attachment(netName).GlobalIPv6Address,
                           IPv6pLen |-> Attachment(netName).GlobalIPv6PrefixLen],
                       err |-> "nil"]

\* a call of extractMgmtIP for a container
ExtractInit ==
    /\ \E container \in Containers :
          call = [fn         |-> "extractMgmtIP",
                  container  |-> container,
                  pc         |-> "inspect",
                  inspectRes |-> [err |-> FALSE, nilRes |-> TRUE, data |-> ZeroInspect],
                  ret        |-> [toReturn |-> EmptyMgmtIPs, err |-> "nil"]]
    /\ lab = NoLab
    /\ maxWorkers = 0
    /\ linkWorkers = 0
    /\ staticIPNodes = {}
    /\ S = {}
    /\ InitLab
    /\ pc = "CreateNodes"

\* containers.Inspect returns
InspectReturn ==
    /\ call.fn = "extractMgmtIP"
    /\ call.pc = "inspect"
    /\ \E res \in InspectResults(call.container) :
          call' = [call EXCEPT !.pc = "extract", !.inspectRes = res]
    /\ UNCHANGED <<lifeVars, lab>>

\* the rest of extractMgmtIP
ExtractReturn ==
    /\ call.fn = "extractMgmtIP"
    /\ call.pc = "extract"
    /\ call' = [call EXCEPT !.pc = "returned",
                            !.ret = extractMgmtIP(call.inspectRes)]
    /\ UNCHANGED <<lifeVars, lab>>

ExtractNext == InspectReturn \/ ExtractReturn

ExtractSpec == ExtractInit /\ [][ExtractNext]_vars

\* ------------------------------------------------ createIXIAFiles
\* PreDeploy of the ixia-c nodes of a lab, each on the worker that received
\* it: createIXIAFiles renders the startup config from the package variable
\* cfgTemplate and writes the system MAC address.
IxiaNodes == 1..NumIxia

\* the content of cfgTemplate: the embedded ixia-c.cfg, the startup config
\* file of a node, or what a read racing with an assignment may return
EmbeddedTemplate == [src |-> "embed", of |-> None]
UserTemplate(n) == [src |-> "file", of |-> n]
TornTemplate == [src |-> "torn", of |-> None]

\* node.StartupConfig: empty, or the path of the node's own file
NoStartupConfig == [set |-> FALSE, of |-> None]
StartupConfigs(n) == {NoStartupConfig, [set |-> TRUE, of |-> n]}

\* hexadecimal digits of a MAC address
HexDigits == <<"0", "1", "2", "3", "4", "5", "6", "7",
               "8", "9", "a", "b", "c", "d", "e", "f">>
IsHex(ch) == \E i \in 1..16 : HexDigits[i] = ch
HexVal(ch) == (CHOOSE i \in 1..16 : HexDigits[i] = ch) - 1
FormatByte(b) == <<HexDigits[(b \div 16) + 1], HexDigits[(b % 16) + 1]>>

\* net.ParseMAC of a 6-byte address xx:xx:xx:xx:xx:xx
ValidMAC(s) ==
    /\ Len(s) = 17
    /\ \A i \in 1..17 : IF i % 3 = 0 THEN s[i] = Colon ELSE IsHex(s[i])
ParseMAC(s) ==
    IF ValidMAC(s)
    THEN [err |-> FALSE,
          m   |-> [i \in 1..6 |-> 16 * HexVal(s[3 * i - 2]) + HexVal(s[3 * i - 1])]]
    ELSE [err |-> TRUE, m |-> <<>>]

\* net.HardwareAddr.String
MacString(m) == Join([i \in 1..Len(m) |-> FormatByte(m[i])], Colon)

\* utils.GenMac("00:1c:73"): the OUI followed by three bytes
OUI == <<"0", "0", Colon, "1", "c", Colon, "7", "3">>
TailBytes == {<<0, b4, b5>> : b4 \in {0, 255}, b5 \in {0, 255}}
GenMac(oui, tail) == oui \o <<Colon>> \o MacString(tail)
MgmtMacs == {GenMac(OUI, tail) : tail \in TailBytes}

\* m[5] = m[5] + 1 on a byte
AddOneLastByte(m) == [m EXCEPT ![6] = (@ + 1) % 256]

\* the system MAC createIXIAFiles writes for a management MAC
SysMac(mac) == MacString(AddOneLastByte(ParseMAC(mac).m))

\* cfgTemplate as a read by node n finds it: its value, or, when the read
\* races with the assignment another node is about to make, that node's
\* file or a torn string
OwnTemplateOnly(c, n) ==
    {IF c.startup[n].set THEN UserTemplate(n) ELSE EmbeddedTemplate}
ReadTemplate(c, n) ==
    LET writers == {m \in IxiaNodes \ {n} : c.ipc[m] = "assign"}
    IN {c.cfgTemplate}
         \cup {UserTemplate(m) : m \in writers}
         \cup (IF writers # {} THEN {TornTemplate} ELSE {})

IxiaInit ==
    /\ \E startup \in [IxiaNodes -> UNION {StartupConfigs(n) : n \in IxiaNodes}],
          mac \in [IxiaNodes -> MgmtMacs] :
          /\ \A n \in IxiaNodes : startup[n] \in StartupConfigs(n)
          /\ call = [fn          |-> "createIXIAFiles",
                     cfgTemplate |-> EmbeddedTemplate,
                     startup     |-> startup,
                     mac         |-> mac,
                     ipc         |-> [n \in IxiaNodes |-> "queued"],
                     rendered    |-> [n \in IxiaNodes |-> [src |-> "none", of |-> None]],
                     sysmac      |-> [n \in IxiaNodes |-> <<>>],
                     err         |-> [n \in IxiaNodes |-> FALSE]]
    /\ lab = NoLab
    /\ maxWorkers = 0
    /\ linkWorkers = 0
    /\ staticIPNodes = {}
    /\ S = {}
    /\ InitLab
    /\ pc = "CreateNodes"

\* a worker calls PreDeploy of node n: the directories are made and, when
\* the user gave a startup config, os.ReadFile reads it
IxiaPreDeploy(n, readErr) ==
    /\ call.fn = "createIXIAFiles"
    /\ call.ipc[n] = "queued"
    /\ call' = IF ~call.startup[n].set
               THEN [call EXCEPT !.ipc[n] = "generate"]
               ELSE IF readErr
               THEN [call EXCEPT !.ipc[n] = "returned", !.err[n] = TRUE]
               ELSE [call EXCEPT !.ipc[n] = "assign"]
    /\ UNCHANGED <<lifeVars, lab>>

\* cfgTemplate = string(c)
AssignTemplate(n) ==
    /\ call.fn = "createIXIAFiles"
    /\ call.ipc[n] = "assign"
    /\ call' = [call EXCEPT !.cfgTemplate = UserTemplate(n),
                            !.ipc[n] = "generate"]
    /\ UNCHANGED <<lifeVars, lab>>

\* node.GenerateConfig(node.ResStartupConfig, cfgTemplate)
GenerateConfig(n, genErr) ==
    /\ call.fn = "createIXIAFiles"
    /\ call.ipc[n] = "generate"
    /\ IF genErr
       THEN call' = [call EXCEPT !.ipc[n] = "returned", !.err[n] = TRUE]
       ELSE \E t \in ReadTemplate(call, n) :
               call' = [call EXCEPT !.rendered[n] = t, !.ipc[n] = "sysmac"]
    /\ UNCHANGED <<lifeVars, lab>>

\* the system MAC address is computed and written
WriteSysMac(n) ==
    /\ call.fn = "createIXIAFiles"
    /\ call.ipc[n] = "sysmac"
    /\ call' = IF ParseMAC(call.mac[n]).err
               THEN [call EXCEPT !.ipc[n] = "returned", !.err[n] = TRUE]
               ELSE [call EXCEPT !.ipc[n] = "returned",
                                 !.sysmac[n] = SysMac(call.mac[n])]
    /\ UNCHANGED <<lifeVars, lab>>

IxiaNext ==
    \E n \in IxiaNodes :
       \/ \E readErr \in BOOLEAN : IxiaPreDeploy(n, readErr)
       \/ AssignTemplate(n)
       \/ \E genErr \in BOOLEAN : GenerateConfig(n, genErr)
       \/ WriteSysMac(n)

IxiaSpec == IxiaInit /\ [][IxiaNext]_vars

\* -------------------------------------------- createContainerSpec
\* createContainerSpec of the podman runtime for a node config: the command
\* and entrypoint are split, the binds are converted, the network mode is
\* translated and the final spec is compiled.
ShlexResults == {"nil", "cmdErr", "entrypointErr"}
NetworkModes == {"host", "bridge", "", "container"}
ZeroSpec == [Mounts |-> <<>>, NSMode |-> ""]

\* the mounts of the storage config after convertMounts returned res
StorageMounts(res) == IF res.err # "nil" THEN <<>> ELSE res.mntSpec

\* a bind list holds a bind spec without a colon
HasInvalidBind(mounts) == \E i \in 1..Len(mounts) : Len(SplitBind(mounts[i])) = 1

SpecGenInit ==
    /\ \E n \in 0..MaxBinds : \E binds \in [1..n -> Binds] :
       \E shlex \in ShlexResults, netns \in NetworkModes, netErr \in BOOLEAN :
          call = [fn       |-> "createContainerSpec",
                  Binds    |-> [i \in 1..n |-> Format(binds[i])],
                  shlex    |-> shlex,
                  netns    |-> netns,
                  netErr   |-> netErr,
                  pc       |-> "split",
                  mounts   |-> <<>>,
                  logged   |-> FALSE,
                  ret      |-> [sg |-> ZeroSpec, err |-> "none"]]
    /\ lab = NoLab
    /\ maxWorkers = 0
    /\ linkWorkers = 0
    /\ staticIPNodes = {}
    /\ S = {}
    /\ InitLab
    /\ pc = "CreateNodes"

\* shlex.Split of cfg.Cmd and cfg.Entrypoint
SplitCmd ==
    /\ call.fn = "createContainerSpec"
    /\ call.pc = "split"
    /\ call' = IF call.shlex # "nil"
               THEN [call EXCEPT !.pc = "returned",
                                 !.ret = [sg |-> ZeroSpec, err |-> call.shlex]]
               ELSE [call EXCEPT !.pc = "storage"]
    /\ UNCHANGED <<lifeVars, lab>>

\* r.convertMounts(ctx, cfg.Binds) and the storage config
StorageConfig ==
    /\ call.fn = "createContainerSpec"
    /\ call.pc = "storage"
    /\ LET res == convertMounts(call.Binds)
       IN call' = [call EXCEPT !.pc = "network",
                               !.logged = (res.err # "nil"),
                               !.mounts = StorageMounts(res)]
    /\ UNCHANGED <<lifeVars, lab>>

\* the switch on cfg.NetworkMode and the compiled spec
NetworkConfig ==
    /\ call.fn = "createContainerSpec"
    /\ call.pc = "network"
    /\ call' =
         IF call.netns = "host"
         THEN [call EXCEPT !.pc = "returned",
                           !.ret = [sg  |-> [Mounts |-> call.mounts, NSMode |-> "host"],
                                    err |-> "nil"]]
         ELSE IF call.netns \in {"bridge", ""}
         THEN IF call.netErr
              THEN [call EXCEPT !.pc = "returned",
                                !.ret = [sg |-> ZeroSpec, err |-> "netErr"]]
              ELSE [call EXCEPT !.pc = "returned",
                                !.ret = [sg  |-> [Mounts |-> call.mounts,
                                                  NSMode |-> "bridge"],
                                         err |-> "nil"]]
         ELSE [call EXCEPT !.pc = "returned",
                           !.ret = [sg |-> ZeroSpec, err |-> "unsupportedNetworkMode"]]
    /\ UNCHANGED <<lifeVars, lab>>

SpecGenNext == SplitCmd \/ StorageConfig \/ NetworkConfig

SpecGenSpec == SpecGenInit /\ [][SpecGenNext]_vars

\* ================================================================ claims
\* the option NewContainerLab applied last, and whether it returned nil
LastOption == lab.opts[lab.next - 1]
LastOptionOk(opt) ==
    /\ lab.fn = "NewContainerLab"
    /\ lab.next > 1
    /\ LastOption.opt = opt
    /\ lab.err \in {"nil", ErrParseTopo}
\* the worker holding n has called node.Deploy
DeployStarted(n) == nodePc[n] \in {"deploy", "lock", "created", "deployErr"}
\* PreDeploy or Deploy of n returned an error
Errored(n) == nodePc[n] \in {"preDeployErr", "deployErr"}
\* scheduleNodes has started the workers of the dynamic wave
DynWaveStarted ==
    /\ dynIPNodes # {}
    /\ wave = "dynamic"
    /\ pc \notin {"CreateNodes", "scheduleNodes"}
\* the lane the send loop puts n on
LaneOf(n) == IF n \in S THEN "serial" ELSE "concurrent"

\* C1 -- Link gate: a link is on its way to a link worker (CreateLinks is
\* sending it, or a worker has received it) only if the DeploymentStatus of
\* both of its endpoint nodes is created at that moment.
C1_LinkGate ==
    \A k \in Links :
        (linkSend = k \/ linkPc[k] # "waiting") =>
            status[EndA(k)] = "created" /\ status[EndB(k)] = "created"

\* a link is being wired while a node worker still holds another node
C1_Witness ==
    \E k \in Links :
        /\ linkPc[k] = "wiring"
        /\ \E n \in Nodes : nodePc[n] \in Held

\* C2 -- Wave ordering: when the Deploy of a dynamic-wave node has started,
\* the Deploy of every static-wave node has started (or its PreDeploy failed,
\* so that it never calls Deploy).
C2_WaveOrdering ==
    \A s \in staticIPNodes, d \in dynIPNodes :
        DeployStarted(d) => DeployStarted(s) \/ nodePc[s] = "preDeployErr"

\* C3 -- The waves are not interleaved: once the workers of the dynamic wave
\* are started, every static-wave node has finished its worker processing.
C3_WavesNotInterleaved ==
    DynWaveStarted => \A s \in staticIPNodes : nodePc[s] \in Finished

\* C4 -- Serial exclusion: two distinct nodes whose long-names are in S are
\* never inside Deploy at the same time.
C4_SerialExclusion ==
    \A a \in S, b \in S :
        a # b => ~(nodePc[a] = "deploy" /\ nodePc[b] = "deploy")

\* C5 -- Worker bound: at most maxWorkers concurrent (non-serial) workers
\* hold a node, counted over both waves.
C5_WorkerBound ==
    Cardinality({n \in Nodes : nodePc[n] \in Held /\ lane[n] = "concurrent"})
        <= maxWorkers

\* C6 -- Status monotonicity: the DeploymentStatus of a node changes only
\* from pending, and only to created or failed; in every step of CreateNodes,
\* CreateLinks and DeleteNodes a status that is created or failed stays.
C6_StatusMonotonic ==
    [][\A n \in Nodes :
          status'[n] # status[n] =>
              status[n] = "pending" /\ status'[n] \in {"created", "failed"}]_vars

\* DeleteNodes has run Delete on a node whose status is created
C6_Witness ==
    \E n \in Nodes :
        /\ delPc[n] \in {"deleted", "deleteErr"}
        /\ status[n] = "created"

\* C7 -- a node whose PreDeploy or Deploy returned an error in a scheduler
\* worker has the DeploymentStatus failed.
C7_ErrorMarksFailed ==
    \A n \in Nodes : Errored(n) => status[n] = "failed"

\* C8 -- Failure isolation: without cancellation an error does not end a
\* worker (until its channel is closed every started worker of a pool is
\* alive), and once the started workers of a pool have all returned every
\* node of the pool is created or failed on its own PreDeploy or Deploy.
C8_FailureIsolation ==
    ~ctxDone =>
        \A v \in Waves, l \in Lanes :
            /\ ~closed[v] => Living(v, l) = spawned[v][l]
            /\ (spawned[v][l] > 0 /\ Living(v, l) = 0) =>
                   \A n \in WaveNodes(v) :
                       LaneOf(n) = l => status[n] = "created" \/ Errored(n)

\* the only worker of a pool holds a node after another node of the pool
\* has failed, and no cancellation has happened
C8_Witness ==
    /\ ~ctxDone
    /\ \E v \in Waves, l \in Lanes :
          /\ spawned[v][l] = 1
          /\ \E a \in WaveNodes(v), b \in WaveNodes(v) :
                /\ lane[a] = l /\ Errored(a)
                /\ lane[b] = l /\ nodePc[b] \in Held

\* C9 -- Cancellation: once ctx is cancelled no DeploymentStatus changes to
\* created and no worker receives another node.
C9_CancelStopsCreation ==
    [][ctxDone =>
          \A n \in Nodes :
              /\ status'[n] = "created" => status[n] = "created"
              /\ nodePc[n] = "queued" => nodePc'[n] = "queued"]_vars

\* C10 -- a link that CreateLinks checks while one of its endpoint nodes has
\* failed PreDeploy or Deploy is removed from linksCopy.
C10_FailedLinkDropped ==
    [][\A k \in Links :
          (CheckLink(k) /\ (Errored(EndA(k)) \/ Errored(EndB(k)))) =>
              k \notin linksCopy']_vars

\* C11 -- without cancellation every link whose two endpoint nodes are
\* created is eventually received by a link worker, and a link with a failed
\* endpoint is never dispatched.
C11_ReadyLinkDispatched ==
    /\ <>ctxDone \/ \A k \in Links :
                       [](LinkReady(status, k) => <>(linkPc[k] # "waiting"))
    /\ [](\A k \in Links :
             (Errored(EndA(k)) \/ Errored(EndB(k))) => linkPc[k] = "waiting")

\* C12 -- for every node, Deploy is entered only by that node's PreDeploy
\* returning without error, the status is set to created only by the worker
\* whose Deploy of that node returned without error, and a node whose
\* PreDeploy failed never has Deploy called.
C12_PreDeployBeforeDeploy ==
    [][\A n \in Nodes :
         /\ PreDeployReturn(n, TRUE) => ~DeployStarted(n)'
         /\ (nodePc[n] = "preDeployErr") => (nodePc'[n] = "preDeployErr")
         /\ (~DeployStarted(n) /\ DeployStarted(n)') =>
                (nodePc[n] = "predeploy" /\ PreDeployReturn(n, FALSE))
         /\ DeployReturn(n, TRUE) => (status'[n] = status[n])
         /\ (status[n] # "created" /\ status'[n] = "created") =>
                (nodePc[n] = "lock" /\ MarkCreated(n))
         /\ (nodePc[n] # "lock" /\ nodePc'[n] = "lock") => DeployReturn(n, FALSE)
      ]_vars

\* one node went through PreDeploy and Deploy and is created, the PreDeploy
\* of another failed
C12_Witness ==
    \E n, m \in Nodes :
        /\ status[n] = "created"
        /\ nodePc[m] = "preDeployErr"

\* C15 -- an error of CreateVirtualWiring is only logged: the step leaves
\* every DeploymentStatus and the dispatch loop as they are and the worker
\* goes back to its select (no link worker is lost while the context is
\* live), and CreateLinks returns only when every link has been dispatched.
C15_WiringErrorLogged ==
    [][/\ \A k \in Links :
            WiringReturn(k, TRUE) =>
               /\ status' = status
               /\ UNCHANGED <<cLinks, linksCopy, linksIter, linkSend, pc>>
               /\ linksClosed \/ linkIdle' = linkIdle + 1
       /\ (pc' = "links" /\ ~ctxDone') => (LinkLiving' = linkWorkers)
       /\ (pc' = "DeleteNodes") => (\A k \in Links : linkPc'[k] \in {"wired", "wireErr"})
      ]_vars

\* CreateLinks has returned after the wiring of one link failed and the
\* same worker wired another link afterwards
C15_Witness ==
    /\ pc = "DeleteNodes"
    /\ linkWorkers = 1
    /\ \E k, j \in Links : linkPc[k] = "wireErr" /\ linkPc[j] = "wired"

\* C13 -- during DeleteNodes the Delete calls of two nodes whose long-names
\* are in S never overlap, and at most one worker serves the serial channel.
C13_DeleteSerialExclusion ==
    /\ \A a, b \in S : (delPc[a] = "deleting" /\ delPc[b] = "deleting") => (a = b)
    /\ delIdle["serial"] + Cardinality({n \in S : delPc[n] = "deleting"}) <= 1

\* two serial nodes and two concurrent workers: the Delete of one serial
\* node has returned, the other serial node is in Delete together with a
\* node of the concurrent lane
C13_Witness ==
    /\ maxWorkers = 2
    /\ \E a, b \in S, c \in Nodes \ S :
          /\ delPc[a] \in {"deleted", "deleteErr"}
          /\ delPc[b] = "deleting"
          /\ delPc[c] = "deleting"

\* C14 -- without cancellation and with at least one worker DeleteNodes
\* returns; it calls Delete exactly once on every node, whatever the Delete
\* calls return, touches nothing of the creation of a node, and returns only
\* when every Delete call has returned.
C14_DeleteAllOnce ==
    /\ (maxWorkers >= 1) => <>(delCtxDone \/ pc = "done")
    /\ [][/\ \A n \in Nodes :
              /\ (delPc'[n] = "deleting" /\ delPc[n] # "deleting") => (delPc[n] = "none")
              /\ (delPc[n] \in {"deleted", "deleteErr"}) => (delPc'[n] = delPc[n])
          /\ UNCHANGED <<nodePc, status>>
          /\ (pc' = "done") => (\A n \in Nodes : delPc'[n] # "deleting")
          /\ (pc' = "done" /\ ~delCtxDone') =>
                (\A n \in Nodes : delPc'[n] \in {"deleted", "deleteErr"})
         ]_vars

\* DeleteNodes has returned without cancellation with a single worker, and
\* a Delete call had returned an error
C14_Witness ==
    /\ pc = "done"
    /\ ~delCtxDone
    /\ maxWorkers = 1
    /\ \E n, m \in Nodes : delPc[n] = "deleteErr" /\ delPc[m] = "deleted"

\* C16 -- bind-mount round trip: for a list of valid binds src:dst or
\* src:dst:opts convertMounts returns no error and one mount per bind, in
\* input order, with Source=src, Destination=dst, Type=bind and Options the
\* options of the bind (none when the bind has no opts part).
C16_MountRoundTrip ==
    (/\ call.fn = "convertMounts"
     /\ call.done
     /\ \A i \in DOMAIN call.binds : call.binds[i].kind # "nocolon")
    => /\ call.ret.err = "nil"
       /\ Len(call.ret.mntSpec) = Len(call.binds)
       /\ \A i \in DOMAIN call.binds :
             call.ret.mntSpec[i] =
                 [Destination |-> call.binds[i].dst,
                  Type        |-> "bind",
                  Source      |-> call.binds[i].src,
                  Options     |-> IF call.binds[i].kind = "src:dst:opts"
                                  THEN call.binds[i].opts ELSE <<>>]

\* convertMounts has returned for two binds, the first with two options of
\* which one holds a colon, the second without options and with a comma in
\* its source
C16_Witness ==
    /\ call.fn = "convertMounts"
    /\ call.done
    /\ Len(call.binds) = 2
    /\ call.binds[1].kind = "src:dst:opts"
    /\ call.binds[1].opts = <<<<"r">>, <<"z", Colon>>>>
    /\ call.binds[2].kind = "src:dst"
    /\ call.binds[2].src = <<"s", Comma>>

\* C17 -- a bind without any colon makes convertMounts return the InvalidBind
\* error and no mounts at all, wherever the bind stands in the list.
C17_InvalidBindRejected ==
    (/\ call.fn = "convertMounts"
     /\ call.done
     /\ \E i \in DOMAIN call.binds : call.binds[i].kind = "nocolon")
    => /\ call.ret.err = "errInvalidBind"
       /\ call.ret.mntSpec = <<>>

\* convertMounts has returned for a valid bind followed by one without a
\* colon
C17_Witness ==
    /\ call.fn = "convertMounts"
    /\ call.done
    /\ Len(call.binds) = 2
    /\ call.binds[1].kind = "src:dst:opts"
    /\ call.binds[2].kind = "nocolon"
    /\ call.binds[2].src # <<>>

\* C18 -- filter lowering: the result of buildFilterString has one key per
\* FilterType that has a filter with operator = or exists, and under that key,
\* in input order, Field "=" for an exists filter (Match ignored) and
\* Field "=" Match for an = filter; filters with another operator are dropped.
C18_FilterLowering ==
    (call.fn = "buildFilterString" /\ call.done) =>
       LET kept(t) == SelectSeq(call.gFilters,
                         LAMBDA g : g.FilterType = t /\ g.Operator \in {"=", "exists"})
           lowered(g) == IF g.Operator = "exists"
                         THEN g.Field \o <<"=">>
                         ELSE g.Field \o <<"=">> \o g.Match
       IN /\ DOMAIN call.filters = {t \in FilterTypes : Len(kept(t)) > 0}
          /\ \A t \in DOMAIN call.filters :
                call.filters[t] = [i \in 1..Len(kept(t)) |-> lowered(kept(t)[i])]

\* buildFilterString has returned for an exists filter with a Match value,
\* a filter with an unsupported operator and an = filter of the same type
C18_Witness ==
    /\ call.fn = "buildFilterString"
    /\ call.done
    /\ Len(call.gFilters) = 3
    /\ call.gFilters[1].Operator = "exists"
    /\ call.gFilters[1].Match # <<>>
    /\ call.gFilters[2].Operator = "!="
    /\ call.gFilters[3].Operator = "="
    /\ call.gFilters[3].FilterType = call.gFilters[1].FilterType
    /\ Len(call.filters[call.gFilters[1].FilterType]) = 2

\* C19 -- mgmt network defaulting: when WithTopoFile has run initMgmtNetwork
\* the default subnets are there only if the topology declared neither
\* subnet; with only one family declared the other stays empty, and declared
\* subnets and a declared network name are kept.
C19_MgmtDefaults ==
    LastOptionOk("WithTopoFile") =>
       LET d == lab.declared
           m == lab.Mgmt
       IN /\ (d.IPv4Subnet = "" /\ d.IPv6Subnet = "") =>
                (m.IPv4Subnet = dockerNetIPv4Addr /\ m.IPv6Subnet = dockerNetIPv6Addr)
          /\ (d.IPv4Subnet = "" /\ d.IPv6Subnet # "") =>
                (m.IPv4Subnet = "" /\ m.IPv6Subnet = d.IPv6Subnet)
          /\ (d.IPv4Subnet # "" /\ d.IPv6Subnet = "") =>
                (m.IPv4Subnet = d.IPv4Subnet /\ m.IPv6Subnet = "")
          /\ (d.IPv4Subnet # "" /\ d.IPv6Subnet # "") =>
                (m.IPv4Subnet = d.IPv4Subnet /\ m.IPv6Subnet = d.IPv6Subnet)
          /\ m.Network = (IF d.Network = "" THEN dockerNetName ELSE d.Network)

\* initMgmtNetwork has run on a topology that declares only an IPv6 subnet
\* and its own network name
C19_Witness ==
    /\ LastOptionOk("WithTopoFile")
    /\ lab.declared.IPv4Subnet = ""
    /\ lab.declared.IPv6Subnet = "v6user"
    /\ lab.declared.Network = "custom"
    /\ lab.Mgmt.IPv6Subnet = "v6user"

\* C20 -- runtime selection: when WithRuntime has returned nil the runtime
\* name is the name given by the caller if not empty, else CLAB_RUNTIME if
\* not empty, else docker; that runtime is the one Init was called on, it is
\* in Runtimes under that name and GlobalRuntime returns it.
C20_RuntimeSelection ==
    LastOptionOk("WithRuntime") =>
       LET n == IF LastOption.name # "" THEN LastOption.name
                ELSE IF lab.env # "" THEN lab.env ELSE "docker"
       IN /\ lab.globalRuntime = n
          /\ n \in DOMAIN lab.Runtimes
          /\ lab.Runtimes[n] = n
          /\ GlobalRuntime(lab) = n
          /\ Len(lab.inits) >= 1
          /\ lab.inits[Len(lab.inits)] = n
          /\ Len(lab.inits) =
                Cardinality({i \in 1..(lab.next - 1) : lab.opts[i].opt = "WithRuntime"})

\* WithRuntime has returned nil for a caller-given name that differs from a
\* non-empty CLAB_RUNTIME, after a WithRuntime that took the name from the
\* environment
C20_Witness ==
    /\ LastOptionOk("WithRuntime")
    /\ lab.next = 3
    /\ lab.opts[1].opt = "WithRuntime"
    /\ lab.opts[1].name = ""
    /\ lab.env = "podman"
    /\ LastOption.name = "docker"
    /\ DOMAIN lab.Runtimes = {"docker", "podman"}

\* C21 -- WithRuntime with a name that is not in the registry returns the
\* unknown-runtime error and adds no entry to Runtimes; an option that
\* returns an error is the last one NewContainerLab applies, and
\* NewContainerLab returns that error and no lab.
C21_UnknownRuntimeStops ==
    [][/\ AtOption("WithRuntime") =>
            LET name == lab.opts[lab.next].name
                n == IF name # "" THEN name
                     ELSE IF lab.env # "" THEN lab.env ELSE "docker"
            IN (n \notin {"docker", "podman"}) =>
                  /\ lab'.err = ErrUnknownRuntime
                  /\ lab'.Runtimes = lab.Runtimes
       /\ (lab.fn = "NewContainerLab" /\ lab.err = "nil" /\ lab'.err # "nil"
              /\ lab'.err # ErrParseTopo) =>
                  /\ lab'.returned
                  /\ lab'.result = "nil"
                  /\ lab'.next = lab.next + 1
       /\ (lab.fn = "NewContainerLab" /\ lab.err # "nil") => (lab' = lab)
      ]_vars

\* NewContainerLab has returned the unknown-runtime error of its first
\* option; a second option was never applied
C21_Witness ==
    /\ lab.fn = "NewContainerLab"
    /\ lab.returned
    /\ lab.err = ErrUnknownRuntime
    /\ lab.result = "nil"
    /\ Len(lab.opts) = 2
    /\ lab.next = 2
    /\ lab.opts[2].opt = "WithTopoFile"
    /\ lab.path = ""

\* C22 -- the readiness poll of ixiacPostDeploy terminates: once the lab
\* timeout has elapsed or the context is cancelled it returns, also when the
\* .ready sentinel never appears.
C22_PollTerminates ==
    \/ call.fn # "ixiacPostDeploy"
    \/ (call.elapsed >= call.timeout \/ call.ctxDone) ~> (call.pc = "returned")

\* C23 -- extractMgmtIP returns an empty record and no error for a
\* container without clab-net-mgmt label, with an empty label or without an
\* attachment on the labelled network; for any other container it returns
\* the addresses and prefix lengths of the attachment on the labelled network.
C23_ExtractMgmtIP ==
    (call.fn = "extractMgmtIP" /\ call.pc = "returned") =>
       LET c == call.container
           attached == /\ c.label.ok
                       /\ c.label.netName \in NetNames
                       /\ c.networks[c.label.netName] = "data"
       IN /\ call.ret.err = "nil"
          /\ ~attached => call.ret.toReturn = EmptyMgmtIPs
          /\ attached =>
                /\ call.ret.toReturn.IPv4addr = Attachment(c.label.netName).IPAddress
                /\ call.ret.toReturn.IPv4pLen = Attachment(c.label.netName).IPPrefixLen
                /\ call.ret.toReturn.IPv6addr = Attachment(c.label.netName).GlobalIPv6Address
                /\ call.ret.toReturn.IPv6pLen = Attachment(c.label.netName).GlobalIPv6PrefixLen

\* C24 -- every node is handed to a worker at most once, by the send loop
\* of its own wave, a node of S over the serial channel and any other node
\* over the concurrent channel; PreDeploy is entered at most once per node;
\* and when CreateNodes returns without cancellation every node has been
\* handed to a worker.
C24_EachNodeOnce ==
    [][/\ \A n \in Nodes :
            /\ (nodePc[n] = "queued" /\ nodePc'[n] # "queued") =>
                  /\ WorkerReceive(n)
                  /\ wave = WaveOf(n)
                  /\ lane'[n] = LaneOf(n)
            /\ (nodePc[n] # "queued") => (nodePc'[n] # "queued" /\ lane'[n] = lane[n])
            /\ (nodePc[n] # "predeploy" /\ nodePc'[n] = "predeploy") =>
                  (nodePc[n] \in {"queued", "sleep"})
            /\ (nodePc[n] \notin {"queued", "sleep"}) => (nodePc'[n] # "sleep")
       /\ (pc = "send" /\ pc' = "CreateLinks" /\ ~ctxDone) =>
             (\A n \in Nodes : nodePc'[n] # "queued")
      ]_vars

\* CreateNodes has returned without cancellation for a lab with two waves,
\* a serial and a non-serial node
C24_Witness ==
    /\ pc = "CreateLinks"
    /\ ~ctxDone
    /\ staticIPNodes # {}
    /\ dynIPNodes # {}
    /\ S # {}
    /\ S # Nodes
    /\ \A n \in Nodes : lane[n] = LaneOf(n)

\* C25 -- for each wave, the number of concurrent workers started is
\* min(W, number of nodes of the wave that are not in S).
C25_ConcurrentWorkers ==
    [][ScheduleNodes =>
         LET k == Cardinality(WaveNodes(wave) \ S)
         IN spawned'[wave]["concurrent"] = (IF k < maxWorkers THEN k ELSE maxWorkers)
      ]_vars

\* C26 -- for each wave, a serial worker is started if and only if a node
\* of that wave is in S.
C26_SerialWorker ==
    [][ScheduleNodes =>
         (spawned'[wave]["serial"] = 1 <=> (WaveNodes(wave) \cap S # {}))
      ]_vars

\* C27 -- a node of S leaves the serial set in the step that enqueues it on
\* the serial channel, so once the static wave is enqueued the set holds no
\* static node, and when all of S is static the dynamic wave starts no
\* serial worker.
C27_SerialSetShrinks ==
    [][/\ \A n \in Nodes :
            (SendNode(n) /\ n \in serialNodes) =>
               (sendChan' = "serial" /\ serialNodes' = serialNodes \ {n})
       /\ closed'["static"] => (serialNodes' \cap staticIPNodes = {})
       /\ (ScheduleNodes /\ wave = "dynamic" /\ S \subseteq staticIPNodes) =>
             (spawned'["dynamic"]["serial"] = 0)
      ]_vars

\* the dynamic wave has started without a serial worker after a static wave
\* that had one, all of S being static
C27_Witness ==
    /\ DynWaveStarted
    /\ S # {}
    /\ S \subseteq staticIPNodes
    /\ serialNodes = {}
    /\ spawned["static"]["serial"] = 1
    /\ spawned["dynamic"]["serial"] = 0

\* C28 -- the enqueue loop of a wave never blocks for ever: whenever it is
\* blocked sending a node, a worker of that channel has not returned yet.
C28_SendNeverStuck ==
    (pc = "send" /\ sendNode # None) => (Living(wave, sendChan) > 0)

\* C29 -- the lab mutex is never held for ever: whenever CreateLinks holds
\* it, blocked sending a link, a link worker has not returned yet.
C29_MutexNeverStuck ==
    (mutex = "CreateLinks") => (LinkLiving > 0)

\* C30 -- when scheduleNodes has returned for the static wave every static
\* node has been received by a static-wave worker, so this holds before a
\* dynamic worker is started or a dynamic node is enqueued; and no more
\* static nodes are in process than the static wave has workers.
C30_StaticReceivedFirst ==
    (staticIPNodes # {} /\ wave = "dynamic") =>
       /\ \A n \in staticIPNodes : nodePc[n] # "queued"
       /\ \A l \in Lanes : Cardinality(HeldBy("static", l)) <= spawned["static"][l]

\* the dynamic wave is about to start its workers while a static node is
\* still with its worker, the context being live
C30_Witness ==
    /\ staticIPNodes # {}
    /\ wave = "dynamic"
    /\ pc = "scheduleNodes"
    /\ ~ctxDone
    /\ \E n \in staticIPNodes : nodePc[n] \in Held
    /\ spawned["dynamic"] = [l \in Lanes |-> 0]

\* C31 -- CreateLinks dispatches each link of the lab at most once; its
\* steps leave c.Links and every node's DeploymentStatus as they were, and
\* a dispatched link is removed from linksCopy only.
C31_LinksFrame ==
    [][/\ \A k \in Links :
            (linkPc[k] # "wiring" /\ linkPc'[k] = "wiring") =>
               /\ linkPc[k] = "waiting"
               /\ k \in linksCopy
               /\ k \notin linksCopy'
               /\ k \in cLinks'
       /\ (pc \in {"CreateLinks", "links", "linksWait"}) => (cLinks' = cLinks)
       /\ (\/ CreateLinks
           \/ \E k \in Links : CheckLink(k) \/ LinkReceive(k)
           \/ CloseLinks
           \/ CreateLinksReturn) => (status' = status /\ cLinks' = cLinks)
      ]_vars

\* CreateLinks has returned after dispatching every link, its copy is
\* empty and the lab's map still holds every link
C31_Witness ==
    /\ pc = "DeleteNodes"
    /\ linksCopy = {}
    /\ cLinks = Links
    /\ \A k \in Links : linkPc[k] \in {"wired", "wireErr"}
    /\ \A n \in Nodes : status[n] = "created"

\* C32 -- the startup config PreDeploy renders for an ixia-c node depends
\* on that node only: from the embedded template when the node has no
\* StartupConfig, from its own file otherwise, whatever the other nodes did.
C32_OwnTemplate ==
    \/ call.fn # "createIXIAFiles"
    \/ \A n \in IxiaNodes :
          (call.rendered[n].src # "none") =>
             (call.rendered[n] \in OwnTemplateOnly(call, n))

\* C33 -- createContainerSpec rejects a node whose Binds hold an invalid
\* bind spec: it returns an error, never a container spec.
C33_InvalidBindFails ==
    \/ call.fn # "createContainerSpec"
    \/ (call.pc = "returned" /\ HasInvalidBind(call.Binds)) => (call.ret.err # "nil")

\* C34 -- the system MAC written for a node is its management MAC plus one
\* as a 48-bit integer (compared as two 24-bit halves).
C34_SysMacPlusOne ==
    \/ call.fn # "createIXIAFiles"
    \/ \A n \in IxiaNodes :
          (call.ipc[n] = "returned" /\ ~call.err[n]) =>
             LET m   == ParseMAC(call.mac[n]).m
                 s   == ParseMAC(call.sysmac[n]).m
                 Hi(x) == x[1] * 65536 + x[2] * 256 + x[3]
                 Lo(x) == x[4] * 65536 + x[5] * 256 + x[6]
             IN /\ ~ParseMAC(call.sysmac[n]).err
                /\ Lo(s) = (Lo(m) + 1) % 16777216
                /\ Hi(s) = (IF Lo(m) = 16777215 THEN (Hi(m) + 1) % 16777216 ELSE Hi(m))
====
